---------------------------- MODULE Spec2Model ----------------------------
(***************************************************************************)
(* A model of hoad.py, the hoarding (advertising space) manager: the two   *)
(* CSV stores hoardings.csv and bookings.csv, the load and save functions  *)
(* and the four pages of main() (View Hoardings, Add New, Edit Existing,   *)
(* Bookings).  One script run of main() is one step.                       *)
(*                                                                         *)
(* Representation.  A CSV file is the sequence of its data rows, a row a   *)
(* record of cells as they stand in the file.  A text cell is a string, a  *)
(* price cell is <<>> (empty) or <<n>>, an images cell is the "|"-joined   *)
(* text as a sequence of tokens (a reference, or Pipe for the character    *)
(* "|").  A DataFrame is the sequence of its rows after read_csv and the   *)
(* conversions of load_data: a text is a string or NaN (what read_csv      *)
(* makes of an empty cell), a price is <<>> (NaN) or <<n>>, is_available   *)
(* is a BOOLEAN, images is a list of references.  uuid4() values are the   *)
(* positive naturals.  The texts of the forms are non-numeric, so that     *)
(* read_csv leaves a text column a column of texts.                        *)
(***************************************************************************)
EXTENDS Integers, Sequences, FiniteSets, TLC

VARIABLES
    hoardings_csv,   \* the rows of DATA_FILE, <<>> when the file is absent
    bookings_csv,    \* the rows of BOOKINGS_FILE, <<>> when the file is absent
    session_state,   \* st.session_state: each key is <<>> (absent) or <<value>>
    page,            \* what the last script run did and rendered
    writers          \* the concurrent script runs of SpecWriters (else <<>>)

vars == <<hoardings_csv, bookings_csv, session_state, page, writers>>

---------------------------------------------------------------------------
(* Bounds of the model. *)

MaxHoardings == 2     \* rows of hoardings.csv
MaxBookings == 1      \* rows of bookings.csv
MaxUpload == 1        \* files picked in one file_uploader
MaxImages == 2        \* references one listing accumulates
MaxDay == 2           \* the dates of the booking form are day 1 .. MaxDay
MaxRows == 2          \* rows of a stored file given to load_data (SpecLoad)

(* Program constants. *)

MAX_IMAGES == 5
DISTRICTS == <<"Raipur", "Durg">>
Pipe == 0

---------------------------------------------------------------------------
(* Small helpers. *)

Range(s) == {s[i] : i \in 1..Len(s)}

Max(S) == IF S = {} THEN 0 ELSE CHOOSE m \in S : \A x \in S : x <= m

Min2(a, b) == IF a <= b THEN a ELSE b

IsPrefix(s, t) == Len(s) <= Len(t) /\ SubSeq(t, 1, Len(s)) = s

\* str.lower() on the texts of the model
Lower(s) ==
    CASE s = "True" -> "true"
      [] s = "TRUE" -> "true"
      [] s = "TRUE " -> "true "
      [] s = "False" -> "false"
      [] s = "FALSE" -> "false"
      [] s = "10X20" -> "10x20"
      [] OTHER -> s

\* the characters of the texts used as sizes and size filters
Chars(s) ==
    CASE s = "" -> <<>>
      [] s = "10x20" -> <<"1", "0", "x", "2", "0">>
      [] s = "x" -> <<"x">>

\* pat occurs in text
Contains(text, pat) ==
    \E i \in 1..(Len(Chars(text)) + 1) :
        /\ i + Len(Chars(pat)) - 1 <= Len(Chars(text))
        /\ SubSeq(Chars(text), i, i + Len(Chars(pat)) - 1) = Chars(pat)

---------------------------------------------------------------------------
(* pandas.read_csv and DataFrame.to_csv, cell by cell. *)

NaN == "NaN"

\* the texts read_csv takes for a missing value (its default na_values)
NaValues == {"", "NA", "N/A", "NaN", "nan", "null", "NULL", "#N/A"}

ReadText(cell) == IF cell \in NaValues THEN NaN ELSE cell

WriteText(v) == IF v = NaN THEN "" ELSE v

WriteBool(b) == IF b THEN "True" ELSE "False"

IsBoolText(cell) == Lower(cell) \in {"true", "false"}

IsIntText(cell) == cell \in {"0", "1"}

\* the dtype read_csv infers for a column of cells
InferDtype(col) ==
    IF \A i \in 1..Len(col) : IsBoolText(col[i]) THEN "bool"
    ELSE IF \A i \in 1..Len(col) : IsIntText(col[i]) THEN "int64"
    ELSE IF \A i \in 1..Len(col) : IsIntText(col[i]) \/ col[i] \in NaValues
        THEN "float64"
    ELSE "object"

\* str(x) of the value read_csv gives row i of the column
StrOfCell(col, i) ==
    LET dtype == InferDtype(col)
        cell == col[i]
    IN  CASE dtype = "bool" -> IF Lower(cell) = "true" THEN "True" ELSE "False"
          [] dtype = "int64" -> cell
          [] dtype = "float64" ->
                IF cell \in NaValues THEN "nan"
                ELSE IF cell = "1" THEN "1.0" ELSE "0.0"
          [] OTHER ->
                IF cell \in NaValues THEN "nan"
                ELSE IF \A j \in 1..Len(col) :
                            IsBoolText(col[j]) \/ col[j] \in NaValues
                     THEN (IF Lower(cell) = "true" THEN "True" ELSE "False")
                     ELSE cell


---------------------------------------------------------------------------
(* The images column: "|".join(x) and x.split("|"). *)

RECURSIVE Join(_)
Join(l) ==
    IF l = <<>> THEN <<>>
    ELSE IF Len(l) = 1 THEN l[1]
    ELSE l[1] \o <<Pipe>> \o Join(Tail(l))

RECURSIVE Split(_)
Split(s) ==
    IF \A i \in 1..Len(s) : s[i] # Pipe THEN <<s>>
    ELSE LET i == CHOOSE k \in 1..Len(s) :
                      s[k] = Pipe /\ \A j \in 1..(k - 1) : s[j] # Pipe
         IN  <<SubSeq(s, 1, i - 1)>> \o Split(SubSeq(s, i + 1, Len(s)))

---------------------------------------------------------------------------
(* Data loading and saving. *)

Column(csv, name) == [i \in 1..Len(csv) |-> csv[i][name]]

\* line 94: True if str(x).lower() in ["true", "1"] else False
parse_is_available(col, i) == Lower(StrOfCell(col, i)) \in {"true", "1"}

load_data(csv) ==
    [i \in 1..Len(csv) |->
        [id           |-> csv[i].id,
         location     |-> ReadText(csv[i].location),
         district     |-> ReadText(csv[i].district),
         size         |-> ReadText(csv[i].size),
         price        |-> csv[i].price,
         is_available |-> parse_is_available(Column(csv, "is_available"), i),
         landmark     |-> ReadText(csv[i].landmark),
         coordinates  |-> ReadText(csv[i].coordinates),
         address      |-> ReadText(csv[i].address),
         images       |-> IF csv[i].images # <<>>
                          THEN Split(csv[i].images) ELSE <<>>]]

save_data(df) ==
    [i \in 1..Len(df) |->
        [id           |-> df[i].id,
         location     |-> WriteText(df[i].location),
         district     |-> WriteText(df[i].district),
         size         |-> WriteText(df[i].size),
         price        |-> df[i].price,
         is_available |-> WriteBool(df[i].is_available),
         landmark     |-> WriteText(df[i].landmark),
         coordinates  |-> WriteText(df[i].coordinates),
         address      |-> WriteText(df[i].address),
         images       |-> IF df[i].images # <<>>
                          THEN Join(df[i].images) ELSE <<>>]]

load_bookings(csv) ==
    [i \in 1..Len(csv) |->
        [booking_id  |-> csv[i].booking_id,
         hoarding_id |-> csv[i].hoarding_id,
         user_name   |-> ReadText(csv[i].user_name),
         phone       |-> ReadText(csv[i].phone),
         email       |-> ReadText(csv[i].email),
         start_date  |-> csv[i].start_date,
         end_date    |-> csv[i].end_date,
         status      |-> ReadText(csv[i].status)]]

save_bookings(bdf) ==
    [i \in 1..Len(bdf) |->
        [booking_id  |-> bdf[i].booking_id,
         hoarding_id |-> bdf[i].hoarding_id,
         user_name   |-> WriteText(bdf[i].user_name),
         phone       |-> WriteText(bdf[i].phone),
         email       |-> WriteText(bdf[i].email),
         start_date  |-> bdf[i].start_date,
         end_date    |-> bdf[i].end_date,
         status      |-> WriteText(bdf[i].status)]]

---------------------------------------------------------------------------
(* uuid4(): a value no record, reference or running script holds.  A       *)
(* listing id, a booking id and an image path are never compared with one  *)
(* another, so each kind draws from its own naturals.                      *)

ImageTokens(csv) ==
    UNION {Range(csv[i].images) : i \in 1..Len(csv)}

ListTokens(df) ==
    UNION {UNION {Range(df[i].images[j]) : j \in 1..Len(df[i].images)} :
               i \in 1..Len(df)}

HoardingIds ==
    {hoardings_csv[i].id : i \in 1..Len(hoardings_csv)}
        \cup UNION {{writers[w].df[i].id : i \in 1..Len(writers[w].df)} :
                        w \in DOMAIN writers}

ImagePaths ==
    ImageTokens(hoardings_csv)
        \cup UNION {ListTokens(writers[w].df) : w \in DOMAIN writers}

BookingIds ==
    {bookings_csv[i].booking_id : i \in 1..Len(bookings_csv)}
        \cup UNION {{writers[w].bdf[i].booking_id :
                         i \in 1..Len(writers[w].bdf)} : w \in DOMAIN writers}

\* the k-th fresh value of this script run, given the values in use
uuid4(used, k) == Max(used) + k

\* lines 123-141: the paths of the first MAX_IMAGES of n uploaded files
handle_image_upload(n) ==
    [k \in 1..Min2(n, MAX_IMAGES) |-> <<uuid4(ImagePaths, k)>>]

---------------------------------------------------------------------------
(* What the forms are filled with. *)

Locations == {"", "GE Road"}
Sizes == {"", "10X20"}
Landmarks == {"", "Clock Tower"}
Coordinates == {"", "21.25,81.63"}
Addresses == {"", "Ward 4"}
AddPrices == {0, 500}       \* number_input(min_value=0)
EditPrices == {-500, 0}     \* number_input without min_value
Names == {"", "Asha"}
Phones == {"", "98261"}
Emails == {"", "asha@cg.in"}
Days == 1..MaxDay
DistrictFilters == {"All"} \cup Range(DISTRICTS)
StatusFilters == {"All", "Available", "Booked"}
SizeFilters == {"", "x"}

ListingForms(prices) ==
    [location : Locations, district : Range(DISTRICTS), size : Sizes,
     price : prices, is_available : BOOLEAN, landmark : Landmarks,
     coordinates : Coordinates, address : Addresses]

FilledForm ==
    [location |-> "GE Road", district |-> "Raipur", size |-> "10X20",
     price |-> 0, is_available |-> TRUE, landmark |-> "Clock Tower",
     coordinates |-> "21.25,81.63", address |-> "Ward 4"]

\* the listing forms of the store: the filled form, and the forms that
\* differ from it in the location, in the size, in the price or in the three
\* optional texts (district and availability are varied by AppForms)
StoreForms(prices) ==
    {f \in ListingForms(prices) :
        /\ f.district = FilledForm.district
        /\ f.is_available = FilledForm.is_available
        /\ (f.landmark = "") = (f.coordinates = "")
        /\ (f.landmark = "") = (f.address = "")
        /\ Cardinality({k \in {"location", "size", "price", "landmark"} :
                            f[k] # FilledForm[k]}) <= 1}

AddForms == StoreForms(AddPrices)

EditForms == StoreForms(EditPrices)

\* the listing forms of the whole application: the fields the pages read
AppForms ==
    {f \in ListingForms({0}) :
        /\ f.landmark = FilledForm.landmark
        /\ f.coordinates = FilledForm.coordinates
        /\ f.address = FilledForm.address
        /\ f.location = "" => f.size = ""}

BookingForms ==
    [user_name : Names, phone : Phones, email : Emails,
     start_date : Days, end_date : Days]

---------------------------------------------------------------------------
(* One script run: lines 212-223 of main(). *)

NoOutput == [operation |-> "", message |-> "", rows |-> <<>>,
             filters |-> [district |-> "All", status |-> "All", size |-> ""],
             form |-> <<>>]

\* lines 213-219: the operation the sidebar gives this run
Selects(operation) ==
    \/ session_state.default_operation = <<>>
    \/ session_state.default_operation = <<operation>>

\* line 217: del st.session_state["default_operation"]
Rerun == [session_state EXCEPT !.default_operation = <<>>]

Show(operation, message) ==
    [NoOutput EXCEPT !.operation = operation, !.message = message]

\* a run that handles a submitted form: the widget values are kept
Submitted(operation, message, form) ==
    [NoOutput EXCEPT !.operation = operation, !.message = message,
                     !.form = <<form>>]


\* a save that patches the file: the rows of the file stay, new rows follow
to_csv_patch(old_csv, new_csv) ==
    LET is_new(row) == \A i \in 1..Len(old_csv) : old_csv[i] # row
    IN  old_csv \o SelectSeq([i \in 1..Len(new_csv) |-> new_csv[i]], is_new)

\* line 102 and line 118: to_csv(FILE) replaces the rows of the file
to_csv(old_csv, new_csv) == new_csv

---------------------------------------------------------------------------
(* 1. View Hoardings: lines 228-300. *)

\* lines 246-253.  filtered_df.size is DataFrame.size, the number of cells
\* of the frame (an int), not the column "size": .str raises AttributeError.
apply_filters(df, district_filter, status_filter, size_filter) ==
    LET by_district(row) == row.district = district_filter
        by_status(row) == row.is_available = (status_filter = "Available")
        f1 == IF district_filter # "All" THEN SelectSeq(df, by_district) ELSE df
        f2 == IF status_filter # "All" THEN SelectSeq(f1, by_status) ELSE f1
    IN  IF size_filter # ""
        THEN [raised |-> "AttributeError", rows |-> <<>>]
        ELSE [raised |-> "", rows |-> f2]

\* lines 289-294: the Book Now buttons of the rows shown
BookNowButtons(rows) ==
    {<<rows[i].id>> : i \in {j \in 1..Len(rows) : rows[j].is_available}}

ViewHoardings(district_filter, status_filter, size_filter, click) ==
    /\ Selects("View Hoardings")
    /\ LET df == load_data(hoardings_csv)
           out == apply_filters(df, district_filter, status_filter, size_filter)
           filters == [district |-> district_filter, status |-> status_filter,
                       size |-> size_filter]
       IN  IF df = <<>>
           THEN /\ filters = NoOutput.filters
                /\ click = <<>>
                /\ page' = Show("View Hoardings",
                                "No hoardings available in database")
                /\ session_state' = Rerun
           ELSE /\ click \in {<<>>} \cup BookNowButtons(out.rows)
                /\ page' = [operation |-> "View Hoardings",
                            message |-> out.raised,
                            rows |-> out.rows,
                            filters |-> filters,
                            form |-> <<>>]
                /\ session_state' =
                       IF click = <<>> THEN Rerun
                       ELSE [selected_hoarding_for_booking |-> click,
                             default_operation |-> <<"Bookings">>]
    /\ UNCHANGED <<hoardings_csv, bookings_csv, writers>>

---------------------------------------------------------------------------
(* 2. Add New: lines 305-345. *)

\* the handler without its check of the required fields
add_new_unvalidated(df, f, images) ==
    [message |-> "Hoarding added successfully!",
     save |-> TRUE,
     df |-> Append(df,
               [id           |-> uuid4(HoardingIds, 1),
                location     |-> f.location,
                district     |-> f.district,
                size         |-> f.size,
                price        |-> <<f.price>>,
                is_available |-> f.is_available,
                landmark     |-> f.landmark,
                coordinates  |-> f.coordinates,
                address      |-> f.address,
                images       |-> images])]

\* lines 326-343: the submit handler on the loaded frame df
add_new(df, f, images) ==
    IF f.location = "" \/ f.district = "" \/ f.size = ""
    THEN [message |-> "Please fill all required fields (location, district, size).",
          save |-> FALSE, df |-> df]
    ELSE [message |-> "Hoarding added successfully!",
          save |-> TRUE,
          df |-> Append(df,
                    [id           |-> uuid4(HoardingIds, 1),
                     location     |-> f.location,
                     district     |-> f.district,
                     size         |-> f.size,
                     price        |-> <<f.price>>,
                     is_available |-> f.is_available,
                     landmark     |-> f.landmark,
                     coordinates  |-> f.coordinates,
                     address      |-> f.address,
                     images       |-> images])]

AddNew(f, n) ==
    /\ Selects("Add New")
    /\ LET df == load_data(hoardings_csv)
           out == add_new(df, f, handle_image_upload(n))
       IN  /\ out.save => Len(df) < MaxHoardings
           /\ hoardings_csv' =
                  IF out.save THEN to_csv(hoardings_csv, save_data(out.df))
                  ELSE hoardings_csv
           /\ page' = Submitted("Add New", out.message,
                                [fields |-> f, uploaded |-> n])
    /\ session_state' = Rerun
    /\ UNCHANGED <<bookings_csv, writers>>

---------------------------------------------------------------------------
(* 3. Edit Existing: lines 350-414. *)

\* str(value) of a text_input's value
StrText(v) == IF v = NaN THEN "nan" ELSE v

\* lines 372-390: the form as it is rendered for the selected listing
edit_form_values(hoarding_data) ==
    [location     |-> StrText(hoarding_data.location),
     district     |-> hoarding_data.district,
     size         |-> StrText(hoarding_data.size),
     price        |-> IF hoarding_data.price # <<>>
                      THEN hoarding_data.price[1] ELSE 0,
     is_available |-> hoarding_data.is_available,
     landmark     |-> StrText(hoarding_data.landmark),
     coordinates  |-> StrText(hoarding_data.coordinates),
     address      |-> StrText(hoarding_data.address)]

FirstIndex(df, hoarding_id) ==
    CHOOSE i \in 1..Len(df) :
        df[i].id = hoarding_id /\ \A j \in 1..(i - 1) : df[j].id # hoarding_id

\* the handler with "images": new_images, the uploads replacing the list
edit_existing_replaces_images(df, hoarding_id, f, new_images) ==
    LET row_index == FirstIndex(df, hoarding_id)
        updates == [id           |-> df[row_index].id,
                    location     |-> f.location,
                    district     |-> f.district,
                    size         |-> f.size,
                    price        |-> <<f.price>>,
                    landmark     |-> f.landmark,
                    coordinates  |-> f.coordinates,
                    address      |-> f.address,
                    is_available |-> f.is_available,
                    images       |-> new_images]
    IN  [message |-> "Hoarding updated successfully!",
         save |-> TRUE,
         df |-> [i \in 1..Len(df) |-> IF i = row_index THEN updates ELSE df[i]]]

\* lines 388-408: the submit handler on the loaded frame df
edit_existing(df, hoarding_id, f, new_images) ==
    LET row_index == FirstIndex(df, hoarding_id)
        existing_images == df[row_index].images
        updates == [id           |-> df[row_index].id,
                    location     |-> f.location,
                    district     |-> f.district,
                    size         |-> f.size,
                    price        |-> <<f.price>>,
                    landmark     |-> f.landmark,
                    coordinates  |-> f.coordinates,
                    address      |-> f.address,
                    is_available |-> f.is_available,
                    images       |-> existing_images \o new_images]
    IN  [message |-> "Hoarding updated successfully!",
         save |-> TRUE,
         df |-> [i \in 1..Len(df) |-> IF i = row_index THEN updates ELSE df[i]]]

EditExisting(selected, f, n) ==
    /\ Selects("Edit Existing")
    /\ LET df == load_data(hoardings_csv)
       IN  IF df = <<>>
           THEN /\ selected = 1 /\ n = 0
                /\ page' = Show("Edit Existing",
                                "No hoardings available for editing")
                /\ UNCHANGED hoardings_csv
           ELSE /\ selected \in 1..Len(df)
                /\ Len(df[selected].images) + n <= MaxImages
                /\ LET out == edit_existing(df, df[selected].id, f,
                                            handle_image_upload(n))
                   IN  /\ hoardings_csv' = to_csv(hoardings_csv, save_data(out.df))
                       /\ page' = Submitted("Edit Existing", out.message,
                                            [selected |-> selected, fields |-> f,
                                             uploaded |-> n])
    /\ session_state' = Rerun
    /\ UNCHANGED <<bookings_csv, writers>>

---------------------------------------------------------------------------
(* 4. Bookings: lines 419-436 and booking_form, lines 157-192. *)

NewBooking(hoarding_id, b) ==
    [booking_id  |-> uuid4(BookingIds, 1),
     hoarding_id |-> hoarding_id,
     user_name   |-> b.user_name,
     phone       |-> b.phone,
     email       |-> b.email,
     start_date  |-> b.start_date,
     end_date    |-> b.end_date,
     status      |-> "Pending"]

\* the handler without its check of the dates
booking_form_dates_unchecked(bdf, hoarding_id, b) ==
    IF b.user_name = "" \/ b.phone = "" \/ b.email = ""
    THEN [message |-> "Please fill all required fields.",
          save |-> FALSE, bdf |-> bdf]
    ELSE [message |-> "Booking created successfully!",
          save |-> TRUE, bdf |-> Append(bdf, NewBooking(hoarding_id, b))]

\* the handler with a check that the listing exists and is available
booking_form_requires_available(bdf, hoarding_id, b) ==
    IF b.user_name = "" \/ b.phone = "" \/ b.email = ""
    THEN [message |-> "Please fill all required fields.",
          save |-> FALSE, bdf |-> bdf]
    ELSE IF b.end_date < b.start_date
    THEN [message |-> "End date cannot be before start date.",
          save |-> FALSE, bdf |-> bdf]
    ELSE IF ~\E i \in 1..Len(hoardings_csv) :
                /\ hoardings_csv[i].id = hoarding_id
                /\ load_data(hoardings_csv)[i].is_available
    THEN [message |-> "This hoarding is not available.",
          save |-> FALSE, bdf |-> bdf]
    ELSE [message |-> "Booking created successfully!",
          save |-> TRUE, bdf |-> Append(bdf, NewBooking(hoarding_id, b))]

\* lines 172-190: the submit handler on the loaded frame bdf
booking_form(bdf, hoarding_id, b) ==
    IF b.user_name = "" \/ b.phone = "" \/ b.email = ""
    THEN [message |-> "Please fill all required fields.",
          save |-> FALSE, bdf |-> bdf]
    ELSE IF b.end_date < b.start_date
    THEN [message |-> "End date cannot be before start date.",
          save |-> FALSE, bdf |-> bdf]
    ELSE [message |-> "Booking created successfully!",
          save |-> TRUE,
          bdf |-> Append(bdf, NewBooking(hoarding_id, b))]

\* the page as it is rendered, no form submitted
Bookings ==
    /\ Selects("Bookings")
    /\ page' = Show("Bookings",
                    IF session_state.selected_hoarding_for_booking # <<>>
                    THEN "You are booking hoarding"
                    ELSE "No hoarding selected for booking at the moment.")
    /\ session_state' = Rerun
    /\ UNCHANGED <<hoardings_csv, bookings_csv, writers>>

\* a submit run that also marks the booked listing unavailable
ConfirmBooking_marks_booked(b) ==
    /\ session_state.default_operation = <<>>
    /\ session_state.selected_hoarding_for_booking # <<>>
    /\ LET bdf == load_bookings(bookings_csv)
           df == load_data(hoardings_csv)
           hoarding_id == session_state.selected_hoarding_for_booking[1]
           out == booking_form(bdf, hoarding_id, b)
       IN  /\ out.save => Len(bdf) < MaxBookings
           /\ bookings_csv' =
                  IF out.save THEN to_csv(bookings_csv, save_bookings(out.bdf))
                  ELSE bookings_csv
           /\ hoardings_csv' =
                  IF out.save
                  THEN save_data([i \in 1..Len(df) |->
                           IF df[i].id = hoarding_id
                           THEN [df[i] EXCEPT !.is_available = FALSE]
                           ELSE df[i]])
                  ELSE hoardings_csv
           /\ page' = Submitted("Bookings", out.message, b)
    /\ session_state' = Rerun
    /\ UNCHANGED writers

\* the page run by the booking form's submit button
ConfirmBooking(b) ==
    /\ session_state.default_operation = <<>>
    /\ session_state.selected_hoarding_for_booking # <<>>
    /\ LET bdf == load_bookings(bookings_csv)
           out == booking_form(bdf,
                      session_state.selected_hoarding_for_booking[1], b)
       IN  /\ out.save => Len(bdf) < MaxBookings
           /\ bookings_csv' =
                  IF out.save THEN to_csv(bookings_csv, save_bookings(out.bdf))
                  ELSE bookings_csv
           /\ page' = Submitted("Bookings", out.message, b)
    /\ session_state' = Rerun
    /\ UNCHANGED <<hoardings_csv, writers>>

---------------------------------------------------------------------------
(* The application, one script run after the other. *)

Init ==
    /\ hoardings_csv = <<>>
    /\ bookings_csv = <<>>
    /\ session_state = [selected_hoarding_for_booking |-> <<>>,
                        default_operation |-> <<>>]
    /\ page = NoOutput
    /\ writers = <<>>

\* the Edit form as rendered, the availability box ticked or not
AppEditForms(selected) ==
    LET df == load_data(hoardings_csv)
    IN  IF selected \in 1..Len(df)
        THEN {[edit_form_values(df[selected]) EXCEPT !.is_available = a] :
                  a \in BOOLEAN}
        ELSE {CHOOSE f \in AppForms : TRUE}

Next ==
    \/ \E d \in DistrictFilters, s \in StatusFilters, z \in SizeFilters,
          click \in {<<>>} \cup {<<id>> : id \in HoardingIds} :
           ViewHoardings(d, s, z, click)
    \/ \E f \in AppForms : AddNew(f, 0)
    \/ \E selected \in 1..MaxHoardings :
           \E f \in AppEditForms(selected) : EditExisting(selected, f, 0)
    \/ Bookings
    \/ \E b \in BookingForms : ConfirmBooking(b)

Spec == Init /\ [][Next]_vars

(* The listing store alone: Add New and Edit Existing with every field. *)

NextStore ==
    \/ \E f \in AddForms, n \in 0..MaxUpload : AddNew(f, n)
    \/ \E selected \in 1..MaxHoardings, f \in EditForms,
          n \in 0..MaxUpload : EditExisting(selected, f, n)

SpecStore == Init /\ [][NextStore]_vars


(* load_data on a stored file whose is_available cells are arbitrary texts. *)

StoredValues == {"true", "True", "TRUE", "TRUE ", "1", "0", "false", "", "yes"}

StoredRow(k, text) ==
    [id |-> k, location |-> "GE Road", district |-> "Raipur", size |-> "10X20",
     price |-> <<0>>, is_available |-> text, landmark |-> "", coordinates |-> "",
     address |-> "", images |-> <<>>]

StoredFiles ==
    UNION {{[k \in 1..n |-> StoredRow(k, col[k])] : col \in [1..n -> StoredValues]} :
               n \in 1..MaxRows}

InitLoad ==
    /\ hoardings_csv \in StoredFiles
    /\ bookings_csv = <<>>
    /\ session_state = [selected_hoarding_for_booking |-> <<>>,
                        default_operation |-> <<>>]
    /\ page = NoOutput
    /\ writers = <<>>

\* lines 221-222: a script run, as far as df = load_data()
LoadStored ==
    /\ page.operation = ""
    /\ page' = [NoOutput EXCEPT !.operation = "load_data",
                                !.rows = load_data(hoardings_csv)]
    /\ UNCHANGED <<hoardings_csv, bookings_csv, session_state, writers>>

SpecLoad == InitLoad /\ [][LoadStored]_vars

---------------------------------------------------------------------------
(* Two script runs at once, as two browser sessions give: each run loads   *)
(* the files (lines 222-223 and 163) and later handles its form and saves, *)
(* with the other run's steps in between.  A load and a save are one step  *)
(* each.  Before the runs start, Add New runs fill the store.              *)

Writers == {1, 2}

Idle == [pc |-> "start", loaded |-> <<>>, df |-> <<>>, bdf |-> <<>>,
         wrote |-> "", changed |-> 0, made |-> 0, loaded_at |-> 0,
         saved_at |-> 0]

\* the loads and saves done so far
Now ==
    Cardinality({w \in DOMAIN writers : writers[w].pc # "start"})
        + Cardinality({w \in DOMAIN writers : writers[w].pc = "done"})

InitWriters ==
    /\ hoardings_csv = <<>>
    /\ bookings_csv = <<>>
    /\ session_state = [selected_hoarding_for_booking |-> <<>>,
                        default_operation |-> <<>>]
    /\ page = NoOutput
    /\ writers = [w \in Writers |-> Idle]

Fill(f) ==
    /\ \A w \in Writers : writers[w].pc = "start"
    /\ AddNew(f, 0)

\* lines 222-223, and line 163 of booking_form
Load(w) ==
    /\ writers[w].pc = "start"
    /\ writers' = [writers EXCEPT ![w] =
           [@ EXCEPT !.pc = "loaded",
                     !.loaded = load_data(hoardings_csv),
                     !.df = load_data(hoardings_csv),
                     !.bdf = load_bookings(bookings_csv),
                     !.loaded_at = Now + 1]]
    /\ UNCHANGED <<hoardings_csv, bookings_csv, session_state, page>>

Saved(w, file, df, bdf, changed, made) ==
    [writers EXCEPT ![w] =
        [@ EXCEPT !.pc = "done", !.df = df, !.bdf = bdf, !.wrote = file,
                  !.changed = changed, !.made = made, !.saved_at = Now + 1]]

\* lines 326-343 on the frame this run loaded
WriterAdd(w, f) ==
    /\ writers[w].pc = "loaded"
    /\ Len(writers[w].df) < MaxHoardings
    /\ LET out == add_new(writers[w].df, f, <<>>)
       IN  /\ out.save
           /\ hoardings_csv' = to_csv(hoardings_csv, save_data(out.df))
           /\ writers' = Saved(w, "hoardings", out.df, writers[w].bdf,
                               Len(out.df), out.df[Len(out.df)].id)
    /\ UNCHANGED <<bookings_csv, session_state, page>>

\* lines 388-408 on the frame this run loaded
WriterEdit(w, selected, is_available) ==
    /\ writers[w].pc = "loaded"
    /\ selected \in 1..Len(writers[w].df)
    /\ LET df == writers[w].df
           f == [edit_form_values(df[selected]) EXCEPT
                     !.is_available = is_available]
           out == edit_existing(df, df[selected].id, f, <<>>)
       IN  /\ hoardings_csv' = to_csv(hoardings_csv, save_data(out.df))
           /\ writers' = Saved(w, "hoardings", out.df, writers[w].bdf,
                               selected, 0)
    /\ UNCHANGED <<bookings_csv, session_state, page>>

\* lines 172-190 on the frame this run loaded
WriterBooking(w, selected, b) ==
    /\ writers[w].pc = "loaded"
    /\ selected \in 1..Len(writers[w].df)
    /\ Len(writers[w].bdf) < MaxBookings
    /\ LET out == booking_form(writers[w].bdf, writers[w].df[selected].id, b)
       IN  /\ out.save
           /\ bookings_csv' = to_csv(bookings_csv, save_bookings(out.bdf))
           /\ writers' = Saved(w, "bookings", writers[w].df, out.bdf,
                               Len(out.bdf), out.bdf[Len(out.bdf)].booking_id)
    /\ UNCHANGED <<hoardings_csv, session_state, page>>

NextWriters ==
    \/ \E a \in BOOLEAN : Fill([FilledForm EXCEPT !.is_available = a])
    \/ \E w \in Writers : Load(w)
    \/ \E w \in Writers, d \in Range(DISTRICTS) :
           WriterAdd(w, [FilledForm EXCEPT !.district = d])
    \/ \E w \in Writers, selected \in 1..MaxHoardings, a \in BOOLEAN :
           WriterEdit(w, selected, a)
    \/ \E w \in Writers, selected \in 1..MaxHoardings, b \in BookingForms :
           WriterBooking(w, selected, b)

SpecWriters == InitWriters /\ [][NextWriters]_vars

---------------------------------------------------------------------------
(* The claims. *)

Hoardings == load_data(hoardings_csv)

BookingsFrame == load_bookings(bookings_csv)

InvalidBooking(b) ==
    b.end_date < b.start_date \/ b.user_name = "" \/ b.phone = "" \/ b.email = ""

\* C1: a booking submission whose end date is before its start date, or
\* whose name, phone or email is empty, is answered with an error and leaves
\* bookings.csv as it was, whatever it held.
C1_RejectedBookingKeepsStore ==
    [][(/\ page'.operation = "Bookings"
        /\ page'.form # <<>>
        /\ InvalidBooking(page'.form[1])) =>
           /\ bookings_csv' = bookings_csv
           /\ page'.message \in {"Please fill all required fields.",
                                 "End date cannot be before start date."}]_vars

\* a submission with the dates reversed was rejected over a store that
\* holds a booking
C1_Witness ==
    /\ page.operation = "Bookings"
    /\ page.form # <<>>
    /\ page.form[1].end_date < page.form[1].start_date
    /\ page.form[1].user_name # ""
    /\ bookings_csv # <<>>


\* C2: an update of a listing whose stored images are X with the newly
\* saved images N stores X followed by N, and over every step of the store
\* each listing stays at its place with its earlier images a prefix of its
\* later images.
C2_ImagesAppendOnly ==
    [][/\ \A i \in 1..Len(Hoardings) :
              /\ i <= Len(load_data(hoardings_csv'))
              /\ load_data(hoardings_csv')[i].id = Hoardings[i].id
              /\ IsPrefix(Hoardings[i].images, load_data(hoardings_csv')[i].images)
       /\ (page'.operation = "Edit Existing" /\ page'.form # <<>>) =>
              load_data(hoardings_csv')[page'.form[1].selected].images =
                  Hoardings[page'.form[1].selected].images
                      \o handle_image_upload(page'.form[1].uploaded)]_vars

\* an update has added an image to a listing that held one
C2_Witness ==
    /\ page.operation = "Edit Existing"
    /\ page.form # <<>>
    /\ page.form[1].uploaded = 1
    /\ Len(Hoardings[page.form[1].selected].images) = 2

\* the record a load gives for the listing of form f with the images given
SameListing(row, f, images) ==
    /\ row.location = f.location
    /\ row.district = f.district
    /\ row.size = f.size
    /\ row.price = <<f.price>>
    /\ row.is_available = f.is_available
    /\ row.landmark = f.landmark
    /\ row.coordinates = f.coordinates
    /\ row.address = f.address
    /\ row.images = images

AddAccepts(f) == f.location # "" /\ f.district # "" /\ f.size # ""

\* C3: after an accepted add of listing L (its optional texts and images
\* empty or not), load_data returns a record equal to L in every field but
\* id, and every record the store held before.
C3_AddRoundTrip ==
    [][(/\ page'.operation = "Add New"
        /\ page'.message = "Hoarding added successfully!") =>
           /\ \E i \in 1..Len(load_data(hoardings_csv')) :
                  SameListing(load_data(hoardings_csv')[i], page'.form[1].fields,
                              handle_image_upload(page'.form[1].uploaded))
           /\ \A i \in 1..Len(Hoardings) :
                  \E j \in 1..Len(load_data(hoardings_csv')) :
                      load_data(hoardings_csv')[j] = Hoardings[i]]_vars

\* the rows of df that satisfy the three predicates together, in order
Matching(df, filters) ==
    LET ok(row) ==
            /\ filters.district = "All" \/ row.district = filters.district
            /\ filters.status = "All"
                   \/ row.is_available = (filters.status = "Available")
            /\ filters.size = ""
                   \/ (row.size # NaN
                           /\ Contains(Lower(row.size), Lower(filters.size)))
    IN  SelectSeq(df, ok)

\* C4: the listing filter shows exactly the listings that satisfy the
\* district, availability and size predicates together, in the order of the
\* store, and all of them when no filter is set.
C4_FilterReturnsMatching ==
    (page.operation = "View Hoardings" /\ Hoardings # <<>>) =>
        /\ page.message = ""
        /\ page.rows = Matching(Hoardings, page.filters)

\* C5: an is_available cell is read as true exactly when it is "true" in
\* any letter case or "1", every other cell as false.
C5_TruthyParse ==
    page.operation = "load_data" =>
        \A i \in 1..Len(hoardings_csv) :
            page.rows[i].is_available =
                (Lower(hoardings_csv[i].is_available) = "true"
                     \/ hoardings_csv[i].is_available = "1")

\* C6: an add with location, district or size empty leaves hoardings.csv
\* as it was; an add with all three filled writes the records of the store
\* followed by one new record with an id no record had.
C6_AddValidates ==
    [][page'.operation = "Add New" =>
           IF ~AddAccepts(page'.form[1].fields)
           THEN hoardings_csv' = hoardings_csv
           ELSE /\ Len(hoardings_csv') = Len(hoardings_csv) + 1
                /\ SubSeq(load_data(hoardings_csv'), 1, Len(hoardings_csv))
                       = Hoardings
                /\ \A i \in 1..Len(hoardings_csv) :
                       hoardings_csv[i].id # hoardings_csv'[Len(hoardings_csv')].id
                /\ hoardings_csv'[Len(hoardings_csv')].location
                       = page'.form[1].fields.location
                /\ hoardings_csv'[Len(hoardings_csv')].size
                       = page'.form[1].fields.size]_vars

\* an add with a required field empty was rejected over a store that holds
\* a listing
C6_Witness ==
    /\ page.operation = "Add New"
    /\ ~AddAccepts(page.form[1].fields)
    /\ hoardings_csv # <<>>

ValidBooking(b) == ~InvalidBooking(b)

\* C7: a booking submission with name, phone and email filled and the end
\* date not before the start date is accepted as a Pending booking of the
\* selected listing, whether that listing is available or not.
C7_BookingIgnoresAvailability ==
    [][(/\ page'.operation = "Bookings"
        /\ page'.form # <<>>
        /\ ValidBooking(page'.form[1])) =>
           /\ page'.message = "Booking created successfully!"
           /\ Len(bookings_csv') = Len(bookings_csv) + 1
           /\ bookings_csv'[Len(bookings_csv')].status = "Pending"
           /\ bookings_csv'[Len(bookings_csv')].hoarding_id =
                  session_state.selected_hoarding_for_booking[1]]_vars

\* a Pending booking references a listing whose is_available is false, and
\* it was accepted when the listing was already unavailable
C7_Witness ==
    /\ page.message = "Booking created successfully!"
    /\ \E k \in 1..Len(BookingsFrame), i \in 1..Len(Hoardings) :
           /\ BookingsFrame[k].status = "Pending"
           /\ BookingsFrame[k].hoarding_id = Hoardings[i].id
           /\ ~Hoardings[i].is_available

\* C8: a booking submission, accepted or rejected, leaves hoardings.csv as
\* it was; hoardings.csv changes only in an Add New or Edit Existing run.
C8_BookingKeepsListings ==
    [][/\ page'.operation = "Bookings" => hoardings_csv' = hoardings_csv
       /\ hoardings_csv' # hoardings_csv =>
              page'.operation \in {"Add New", "Edit Existing"}]_vars

\* a booking was accepted and the listing it references is still available
C8_Witness ==
    /\ page.message = "Booking created successfully!"
    /\ \E k \in 1..Len(BookingsFrame), i \in 1..Len(Hoardings) :
           /\ BookingsFrame[k].hoarding_id = Hoardings[i].id
           /\ Hoardings[i].is_available

\* C9: every stored listing has a non-empty location, a non-empty size, a
\* district of DISTRICTS and a price that is absent or not negative.
C9_ListingFieldsValid ==
    \A i \in 1..Len(Hoardings) :
        /\ Hoardings[i].location \notin {NaN, ""}
        /\ Hoardings[i].size \notin {NaN, ""}
        /\ Hoardings[i].district \in Range(DISTRICTS)
        /\ Hoardings[i].price = <<>> \/ Hoardings[i].price[1] >= 0


WritersOf(file) == {w \in DOMAIN writers : writers[w].wrote = file}

LastWriter(file) ==
    CHOOSE w \in WritersOf(file) :
        \A v \in WritersOf(file) : writers[v].saved_at <= writers[w].saved_at

\* both runs loaded before either saved
Interleaved ==
    /\ \A w \in Writers : writers[w].pc = "done"
    /\ \A w, v \in Writers : writers[w].loaded_at < writers[v].saved_at

\* C10: when two runs load and then both save the same file, the file ends
\* as the rows the run that saved last wrote: the rows it loaded with its
\* own change and nothing of the other run's change.
C10_LastWriterWins ==
    Interleaved =>
        /\ Cardinality(WritersOf("hoardings")) = 2 =>
               LET w == LastWriter("hoardings")
                   v == CHOOSE u \in Writers : u # w
               IN  /\ hoardings_csv = save_data(writers[w].df)
                   /\ Len(Hoardings) =
                          IF writers[w].made # 0
                          THEN Len(writers[w].loaded) + 1
                          ELSE Len(writers[w].loaded)
                   /\ \A i \in 1..Len(writers[w].loaded) :
                          i # writers[w].changed =>
                              Hoardings[i] = writers[w].loaded[i]
                   /\ writers[v].made # 0 =>
                          \A i \in 1..Len(Hoardings) :
                              Hoardings[i].id # writers[v].made
        /\ Cardinality(WritersOf("bookings")) = 2 =>
               LET w == LastWriter("bookings")
                   v == CHOOSE u \in Writers : u # w
               IN  /\ bookings_csv = save_bookings(writers[w].bdf)
                   /\ Len(bookings_csv) = 1
                   /\ bookings_csv[1].booking_id = writers[w].made
                   /\ bookings_csv[1].booking_id # writers[v].made

\* both runs loaded, then both saved hoardings.csv, one adding a listing
\* and the other editing one
C10_Witness ==
    /\ Interleaved
    /\ Cardinality(WritersOf("hoardings")) = 2
    /\ \E w, v \in Writers : writers[w].made # 0 /\ writers[v].made = 0

=============================================================================
